---- MODULE Spec2Model ----
(***************************************************************************)
(* Model of the Engine class of src/mbe.js (the two gated action queues,   *)
(* the credential harvester, initialize/login) and of the substring        *)
(* helper src/utils/getString.js.                                          *)
(*                                                                         *)
(* JavaScript runs one synchronous block at a time: every action below is  *)
(* one such block, from the resumption of an await (or the entry of a      *)
(* public method / event handler) to the next await.                       *)
(***************************************************************************)
EXTENDS Integers, Sequences, FiniteSets, TLC

VARIABLES
    initPc,                    \* the await initialize() is suspended at, or "done"/"failed"
    initialized,               \* state of the promise this.initialized
    interception,              \* TRUE once _setupNetworkInterception has run
    cookie,                    \* this.cookie
    userData,                  \* this.userData
    browserActionQueue,        \* this.browserActionQueue
    apiActionQueue,            \* this.apiActionQueue
    isBrowserReady,            \* this.isBrowserReady
    isApiReady,                \* this.isApiReady
    isProcessingBrowserQueue,  \* this.isProcessingBrowserQueue
    isProcessingApiQueue,      \* this.isProcessingApiQueue
    runningBrowser,            \* action the browser drain loop is awaiting (NoAction: no loop suspended)
    runningApi,                \* action the api drain loop is awaiting
    routePc,                   \* the await the route handler is suspended at, or "idle"
    respPc,                    \* the await the response handler is suspended at, or "idle"
    gsIn,                      \* arguments of the getString call under test (SpecGetString)
    gsOut,                     \* what that call returned
    streamDataObject,          \* argument of the getActivitiesAsJson call under test (SpecActivities)
    gaOut,                     \* what that call returned
    coursesDataObject,         \* argument of the getCoursesAsJson call under test (SpecCourses)
    gcOut,                     \* what that call returned
    streamPc,                  \* the await _handleActivityStreamResponse is suspended at, or "idle"
    streamObs,                 \* observation: the stream response handled last and what it emitted
    hist                       \* observation record: what was enqueued, started, logged

transformVars == <<streamDataObject, gaOut, coursesDataObject, gcOut>>

streamVars == <<streamPc, streamObs>>

vars == <<initPc, initialized, interception, cookie, userData,
          browserActionQueue, apiActionQueue, isBrowserReady, isApiReady,
          isProcessingBrowserQueue, isProcessingApiQueue, runningBrowser, runningApi,
          routePc, respPc, gsIn, gsOut, transformVars, streamVars, hist>>

engineVars == <<initPc, initialized, interception, cookie, userData,
                browserActionQueue, apiActionQueue, isBrowserReady, isApiReady,
                isProcessingBrowserQueue, isProcessingApiQueue, runningBrowser, runningApi,
                routePc, respPc, hist>>

----------------------------------------------------------------------------
(* Bounds of the model *)

\* total number of getActivities/getCourses calls in a run
MaxActions == 2
\* longest text given to getString in the specification SpecGetString
MaxTextLen == 4
\* longest delimiter given to getString in the specification SpecGetString
MaxDelimLen == 2

----------------------------------------------------------------------------
(* Values *)

Null == "null"
NoAction == 0

\* How an awaited action settles: it resolves ("ok"), rejects with a value whose
\* .message can be read (an Error, "error"), or rejects with null/undefined
\* ("nullish"), e.g. the value a 'log' listener threw through emit at line 124/137.
Outcomes == {"ok", "error", "nullish"}

----------------------------------------------------------------------------
(* src/utils/getString.js.  A JavaScript string is the sequence of its     *)
(* characters; what getString returns is a string, false or undefined.     *)

GsFalse == [kind |-> "false", text |-> <<>>]
GsUndefined == [kind |-> "undefined", text |-> <<>>]
GsNotCalled == [kind |-> "notCalled", text |-> <<>>]
GsString(t) == [kind |-> "string", text |-> t]

\* String.prototype.indexOf(pat, from), 1-based; 0 when pat does not occur at or
\* after from (the empty pattern occurs at every position).
IndexOf(s, pat, from) ==
    LET hits == {i \in from..(Len(s) - Len(pat) + 1) : SubSeq(s, i, i + Len(pat) - 1) = pat}
    IN  IF hits = {} THEN 0 ELSE CHOOSE i \in hits : \A j \in hits : i <= j

\* String.prototype.split(sep) for a string separator: the pieces between the
\* successive non-overlapping occurrences of sep, found left to right; with the
\* empty separator, the single characters (none for the empty string).
RECURSIVE Split(_, _)
Split(s, sep) ==
    IF sep = <<>>
    THEN [i \in 1..Len(s) |-> <<s[i]>>]
    ELSE LET i == IndexOf(s, sep, 1)
         IN  IF i = 0
             THEN <<s>>
             ELSE <<SubSeq(s, 1, i - 1)>> \o Split(SubSeq(s, i + Len(sep), Len(s)), sep)

\* getString(string, left, right): string.split(left)[1].split(right)[0] inside
\* try/catch.  split(left)[1] is undefined when left does not occur, the call of
\* .split on it throws, and the catch returns false.  [0] of an empty array is
\* undefined.
getString(string, left, right) ==
    LET parts == Split(string, left)
    IN  IF Len(parts) < 2
        THEN GsFalse
        ELSE LET pieces == Split(parts[2], right)
             IN  IF Len(pieces) = 0 THEN GsUndefined ELSE GsString(pieces[1])

----------------------------------------------------------------------------
(* JavaScript values held by this.cookie and this.userData, each named by  *)
(* a string: Null, the number 0, the parsed identity object, a cookie      *)
(* header.                                                                 *)

JsZero == "0"
JsIdentity == "{id:1}"

\* ToBoolean, as `if (headers.cookie)`, `if (userDataString)` and
\* `this.cookie && this.userData` apply it.
Truthy(v) == v \notin {Null, JsZero, ""}

\* The delimiters the response handler passes to getString (line 221).
UserLeft == <<"u", "s", "e", "r", ":", " ">>
UserRight == <<",", "\n">>

FragIdentity == <<"{", "\"", "i", "d", "\"", ":", "1", "}">>
FragNull == <<"n", "u", "l", "l">>
FragZero == <<"0">>
FragBroken == <<"{", "\"", "i", "d">>

\* Response bodies of GET https://mcl.blackboard.com/ultra the model observes.
BodyIdentity == <<"a", "=">> \o UserLeft \o FragIdentity \o UserRight \o <<"r">>
BodyNull == UserLeft \o FragNull \o UserRight
BodyZero == UserLeft \o FragZero \o UserRight
BodyBroken == UserLeft \o FragBroken \o UserRight
BodyEmptyFragment == UserLeft \o UserRight
BodyNoMarker == <<"n", "o", " ", "m", "a", "r", "k", "e", "r">>
Bodies == {BodyIdentity, BodyNull, BodyZero, BodyBroken, BodyEmptyFragment, BodyNoMarker}

\* JSON.parse on the fragments above: the value, or that it throws a SyntaxError.
JSONParse(frag) ==
    CASE frag = FragIdentity -> [throws |-> FALSE, value |-> JsIdentity]
      [] frag = FragNull     -> [throws |-> FALSE, value |-> Null]
      [] frag = FragZero     -> [throws |-> FALSE, value |-> JsZero]
      [] OTHER               -> [throws |-> TRUE, value |-> Null]

\* What the cookie request header of an intercepted request holds ("" when the
\* request carries none).
CookieHeaders == {"", "sid=1"}

----------------------------------------------------------------------------
(* The drain routines, lines 161-176 and 182-197.  They are the same code   *)
(* on the two sets of fields, so the pure steps are written once.           *)

\* The early return without its readiness test: `if (processing) return;`.
DrainMayStartUngated(ready, processing) == ~processing

\* The early return without its re-entrancy test: `if (!ready) return;`.
DrainMayStartReentrant(ready, processing) == ready

\* Negation of the early return `if (!ready || processing) return;` (162, 183).
DrainMayStart(ready, processing) == ~(~ready \/ processing)

\* queue.shift(): the removed head and what stays.
Shift(q) == [action |-> Head(q), rest |-> Tail(q)]

\* One evaluation of `while (queue.length > 0) { action = queue.shift(); await action() }`
\* up to its await, or to `processing = false` behind the loop.
DrainLoop(q) ==
    IF Len(q) > 0
    THEN [queue |-> Shift(q).rest, running |-> Shift(q).action, processing |-> TRUE]
    ELSE [queue |-> q, running |-> NoAction, processing |-> FALSE]

\* _tryProcessBrowserQueue / _tryProcessApiQueue called with the queue holding q.
\* `entered` tells that this call got past the guard and is suspended in the loop.
TryProcessQueue(q, ready, processing, running) ==
    IF DrainMayStart(ready, processing)
    THEN [queue |-> DrainLoop(q).queue, running |-> DrainLoop(q).running,
          processing |-> DrainLoop(q).processing, entered |-> Len(q) > 0]
    ELSE [queue |-> q, running |-> running, processing |-> processing, entered |-> FALSE]

\* `catch (error) { this._log('ERROR', `... ${error.message}`) }` (171-173, 192-194):
\* reading .message of null or undefined throws a TypeError out of the catch block.
CatchThrows(outcome) == outcome = "nullish"

----------------------------------------------------------------------------
(* The transformers and the activity-stream handler before any call of them *)

NotCalled == [called |-> FALSE]

NoTransformerCall ==
    /\ streamDataObject = [shape |-> "null"]
    /\ gaOut = NotCalled
    /\ coursesDataObject = [shape |-> "null"]
    /\ gcOut = NotCalled

NoStreamResponse ==
    /\ streamPc = "idle"
    /\ streamObs = [handled |-> FALSE]

----------------------------------------------------------------------------
(* Observation record (not program state): ids of the closures enqueued,   *)
(* started and finished, and the log events emitted.                       *)

HistInit ==
    [nextId |-> 1,
     enqB |-> <<>>, enqA |-> <<>>,       \* ids in the order they were pushed
     exeB |-> <<>>, exeA |-> <<>>,       \* ids in the order they were called
     failB |-> 0, failA |-> 0,           \* called actions that threw or rejected
     errB |-> 0, errA |-> 0,             \* ERROR logs '... action failed'
     readyB |-> 0, readyA |-> 0,         \* readiness logs (lines 90, 246)
     loopsB |-> 0, loopsA |-> 0,         \* drain loops suspended at `await action()`
     preB |-> {}, preA |-> {},           \* ids pushed while the gate was closed
     midB |-> {}, midA |-> {},           \* ids pushed while the drain awaited an action
     apiNoIdentity |-> FALSE,            \* the running api action read this.userData.id of null
     identitySeen |-> FALSE,             \* an identity object has been recorded
     rechecked |-> FALSE,                \* _checkApiReady was called with the gate open
     missed |-> FALSE,                   \* the last /ultra response handled gave no identity
     missLogged |-> FALSE,               \* a 'log' event was emitted for a miss
     login |-> "unread",                 \* line 78 found the login header: "needed";
                                         \* no login is outstanding: "settled"
     rejected |-> "none"]                \* the await outside login's try blocks that rejected

\* ids newly called when the drain state goes from running r0 to r
Started(exe, r0, r) == IF r # NoAction /\ r # r0 THEN Append(exe, r) ELSE exe

\* number of suspended drain loops after a _tryProcess*Queue call with result d
Entered(n, d) == IF d.entered THEN n + 1 ELSE n

\* number of suspended drain loops after one of them was resumed: it left the
\* loop (line 175/196, or the throw of its catch block) or awaits the next action
Resumed(n, left) == IF left THEN n - 1 ELSE n

----------------------------------------------------------------------------
(* The state after `new Engine(...)`: the constructor has called           *)
(* initialize(), which logged and is suspended at `await firefox.launch`.  *)

Init ==
    /\ initPc = "launch"
    /\ initialized = "pending"
    /\ interception = FALSE
    /\ cookie = Null
    /\ userData = Null
    /\ browserActionQueue = <<>>
    /\ apiActionQueue = <<>>
    /\ isBrowserReady = FALSE
    /\ isApiReady = FALSE
    /\ isProcessingBrowserQueue = FALSE
    /\ isProcessingApiQueue = FALSE
    /\ runningBrowser = NoAction
    /\ runningApi = NoAction
    /\ routePc = "idle"
    /\ respPc = "idle"
    /\ gsIn = [string |-> <<>>, left |-> <<>>, right |-> <<>>]
    /\ gsOut = GsNotCalled
    /\ NoTransformerCall
    /\ NoStreamResponse
    /\ hist = HistInit

----------------------------------------------------------------------------
(* Public methods, lines 121-155 *)

\* getActivities(): push the closure, then _tryProcessBrowserQueue() up to its await.
GetActivities ==
    /\ hist.nextId <= MaxActions
    /\ LET id == hist.nextId
           d == TryProcessQueue(Append(browserActionQueue, id), isBrowserReady,
                                isProcessingBrowserQueue, runningBrowser)
       IN  /\ browserActionQueue' = d.queue
           /\ isProcessingBrowserQueue' = d.processing
           /\ runningBrowser' = d.running
           /\ hist' = [hist EXCEPT !.nextId = id + 1,
                                   !.enqB = Append(@, id),
                                   !.exeB = Started(@, runningBrowser, d.running),
                                   !.loopsB = Entered(@, d),
                                   !.preB = IF isBrowserReady THEN @ ELSE @ \cup {id},
                                   !.midB = IF runningBrowser # NoAction THEN @ \cup {id} ELSE @]
    /\ UNCHANGED <<initPc, initialized, interception, cookie, userData, apiActionQueue,
                   isBrowserReady, isApiReady, isProcessingApiQueue, runningApi,
                   routePc, respPc, gsIn, gsOut, transformVars, streamVars>>

\* getCourses(): push the closure, then _tryProcessApiQueue() up to its await.  A
\* closure that is called reads this.userData.id (line 138) before its own try.
GetCourses ==
    /\ hist.nextId <= MaxActions
    /\ LET id == hist.nextId
           d == TryProcessQueue(Append(apiActionQueue, id), isApiReady,
                                isProcessingApiQueue, runningApi)
       IN  /\ apiActionQueue' = d.queue
           /\ isProcessingApiQueue' = d.processing
           /\ runningApi' = d.running
           /\ hist' = [hist EXCEPT !.nextId = id + 1,
                                   !.enqA = Append(@, id),
                                   !.exeA = Started(@, runningApi, d.running),
                                   !.loopsA = Entered(@, d),
                                   !.apiNoIdentity =
                                        IF d.running # runningApi THEN userData = Null ELSE @,
                                   !.preA = IF isApiReady THEN @ ELSE @ \cup {id},
                                   !.midA = IF runningApi # NoAction THEN @ \cup {id} ELSE @]
    /\ UNCHANGED <<initPc, initialized, interception, cookie, userData, browserActionQueue,
                   isBrowserReady, isApiReady, isProcessingBrowserQueue, runningBrowser,
                   routePc, respPc, gsIn, gsOut, transformVars, streamVars>>

----------------------------------------------------------------------------
(* Resumption of the drain loops behind `await action()`, lines 169-175 and *)
(* 190-196.                                                                 *)

\* The awaited browser action settles with outcome o.
BrowserActionSettles(o) ==
    /\ runningBrowser # NoAction
    /\ IF o # "ok" /\ CatchThrows(o)
       THEN \* the TypeError leaves the catch block and the async function: the loop
            \* is gone and line 175 is never reached
            /\ runningBrowser' = NoAction
            /\ hist' = [hist EXCEPT !.failB = @ + 1, !.loopsB = Resumed(@, TRUE)]
            /\ UNCHANGED <<browserActionQueue, isProcessingBrowserQueue>>
       ELSE LET d == DrainLoop(browserActionQueue)
            IN  /\ browserActionQueue' = d.queue
                /\ isProcessingBrowserQueue' = d.processing
                /\ runningBrowser' = d.running
                /\ hist' = [hist EXCEPT !.failB = IF o = "ok" THEN @ ELSE @ + 1,
                                        !.errB = IF o = "ok" THEN @ ELSE @ + 1,
                                        !.exeB = Started(@, NoAction, d.running),
                                        !.loopsB = Resumed(@, d.running = NoAction)]
    /\ UNCHANGED <<initPc, initialized, interception, cookie, userData, apiActionQueue,
                   isBrowserReady, isApiReady, isProcessingApiQueue, runningApi,
                   routePc, respPc, gsIn, gsOut, transformVars, streamVars>>

\* The awaited api action settles with outcome o.  Failures of fetch, of the
\* status check and of the transformer are caught inside the closure (140-151),
\* which then resolves ("ok"); what is thrown before its try block rejects it:
\* the TypeError of this.userData.id on null (line 138, never "ok" then), or the
\* value a 'log' listener throws through the emit of line 137.
ApiActionSettles(o) ==
    /\ runningApi # NoAction
    /\ hist.apiNoIdentity => o # "ok"
    /\ IF o # "ok" /\ CatchThrows(o)
       THEN /\ runningApi' = NoAction
            /\ hist' = [hist EXCEPT !.failA = @ + 1, !.apiNoIdentity = FALSE,
                                    !.loopsA = Resumed(@, TRUE)]
            /\ UNCHANGED <<apiActionQueue, isProcessingApiQueue>>
       ELSE LET d == DrainLoop(apiActionQueue)
            IN  /\ apiActionQueue' = d.queue
                /\ isProcessingApiQueue' = d.processing
                /\ runningApi' = d.running
                /\ hist' = [hist EXCEPT !.failA = IF o = "ok" THEN @ ELSE @ + 1,
                                        !.errA = IF o = "ok" THEN @ ELSE @ + 1,
                                        !.exeA = Started(@, NoAction, d.running),
                                        !.loopsA = Resumed(@, d.running = NoAction),
                                        !.apiNoIdentity =
                                            d.running # NoAction /\ userData = Null]
    /\ UNCHANGED <<initPc, initialized, interception, cookie, userData, browserActionQueue,
                   isBrowserReady, isApiReady, isProcessingBrowserQueue, runningBrowser,
                   routePc, respPc, gsIn, gsOut, transformVars, streamVars>>

----------------------------------------------------------------------------
(* initialize() and login(), lines 66-116 *)

\* The awaits of initialize and login in program order, and the one that follows
\* each when it resolves ("content" is followed by "consent" only when the login
\* test of line 80 finds the login header: see InitContentResolves).
InitAwaits == {"launch", "newPage", "goto", "content",
               "consent", "fillUser", "fillPass", "signIn", "networkIdle"}
NextAwait(pc) ==
    CASE pc = "launch"   -> "newPage"
      [] pc = "newPage"  -> "goto"
      [] pc = "goto"     -> "content"
      [] pc = "content"  -> "consent"
      [] pc = "consent"  -> "fillUser"
      [] pc = "fillUser" -> "fillPass"
      [] pc = "fillPass" -> "signIn"
      [] pc = "signIn"   -> "networkIdle"

\* Every await wrapped in a try/catch, as the consent click is.
RejectionCaughtAlways(pc) == TRUE

\* The awaits inside a try/catch: the consent click (100-105) and
\* waitForLoadState (111-115).  A rejection of any other await leaves initialize.
RejectionCaught(pc) == pc \in {"consent", "networkIdle"}

\* Observation: the await at pc rejected; the consent click and waitForLoadState,
\* whose rejections login() expects, are not recorded.
Fatal(pc, was) == IF pc \in {"consent", "networkIdle"} THEN was ELSE pc

\* `return true` reached without lines 89-91.
ReturnWithoutGate(h) ==
    /\ initialized' = "resolved"
    /\ initPc' = "done"
    /\ hist' = h
    /\ UNCHANGED <<interception, isBrowserReady, browserActionQueue,
                   isProcessingBrowserQueue, runningBrowser>>

\* Lines 88-93: set the gate, log, start the browser drain, return true.
OpenBrowserGate(h) ==
    LET d == TryProcessQueue(browserActionQueue, TRUE,
                             isProcessingBrowserQueue, runningBrowser)
    IN  /\ isBrowserReady' = TRUE
        /\ browserActionQueue' = d.queue
        /\ isProcessingBrowserQueue' = d.processing
        /\ runningBrowser' = d.running
        /\ hist' = [h EXCEPT !.readyB = @ + 1,
                             !.exeB = Started(@, runningBrowser, d.running),
                             !.loopsB = Entered(@, d)]
        /\ initialized' = "resolved"
        /\ initPc' = "done"
        /\ UNCHANGED interception

\* login() returning before its last await, waitForLoadState.
LoginFinishedAtSignIn(pc) == pc = "signIn"

\* login() returns behind the try/catch around waitForLoadState (111-116).
LoginFinished(pc) == pc = "networkIdle"

\* What follows the await at pc once it is behind: the next await, or lines 88-93.
Proceed(pc, h) ==
    IF LoginFinished(pc)
    THEN OpenBrowserGate([h EXCEPT !.login = IF pc = "networkIdle" THEN "settled" ELSE @])
    ELSE /\ initPc' = NextAwait(pc)
         /\ interception' = (interception \/ pc = "goto")   \* line 75
         /\ hist' = h
         /\ UNCHANGED <<initialized, isBrowserReady, browserActionQueue,
                        isProcessingBrowserQueue, runningBrowser>>

\* firefox.launch, newPage, goto, fill, fill, click or waitForLoadState resolves.
InitAwaitResolves ==
    /\ initPc \in InitAwaits \ {"content"}
    /\ Proceed(initPc, hist)
    /\ UNCHANGED <<cookie, userData, apiActionQueue, isApiReady, isProcessingApiQueue,
                   runningApi, routePc, respPc, gsIn, gsOut, transformVars, streamVars>>

\* page.content() resolves; the page holds the login header or not (lines 77-86).
InitContentResolves(isNotLoggedIn) ==
    /\ initPc = "content"
    /\ IF isNotLoggedIn
       THEN /\ initPc' = "consent"
            /\ hist' = [hist EXCEPT !.login = "needed"]
            /\ UNCHANGED <<initialized, interception, isBrowserReady, browserActionQueue,
                           isProcessingBrowserQueue, runningBrowser>>
       ELSE OpenBrowserGate([hist EXCEPT !.login = "settled"])
    /\ UNCHANGED <<cookie, userData, apiActionQueue, isApiReady, isProcessingApiQueue,
                   runningApi, routePc, respPc, gsIn, gsOut, transformVars, streamVars>>

\* The await initialize (or login) is suspended at rejects.
InitAwaitRejects ==
    /\ initPc \in InitAwaits
    /\ IF RejectionCaught(initPc)
       THEN /\ Proceed(initPc, [hist EXCEPT !.rejected = Fatal(initPc, @)])
            /\ UNCHANGED <<cookie, userData, apiActionQueue, isApiReady,
                           isProcessingApiQueue, runningApi, routePc, respPc, gsIn, gsOut, transformVars, streamVars>>
       ELSE /\ initPc' = "failed"
            /\ initialized' = "rejected"
            /\ hist' = [hist EXCEPT !.rejected = Fatal(initPc, @)]
            /\ UNCHANGED <<interception, cookie, userData, browserActionQueue, apiActionQueue,
                           isBrowserReady, isApiReady, isProcessingBrowserQueue,
                           isProcessingApiQueue, runningBrowser, runningApi,
                           routePc, respPc, gsIn, gsOut, transformVars, streamVars>>

----------------------------------------------------------------------------
(* The credential harvester, lines 204-249 *)

\* _checkApiReady without its first line.
CheckNeverReturnsEarly == FALSE

\* `if (this.isApiReady) return;` (line 242)
CheckReturnsEarly == isApiReady

\* `this.cookie && this.userData` (line 244) on the values the fields hold
CredentialsPresent(c, u) == Truthy(c) /\ Truthy(u)

\* _checkApiReady assigning the gate the value of its test on every call:
\* `this.isApiReady = Boolean(this.cookie && this.userData)`.
CheckApiReadyRecomputed(c, u) ==
    IF CredentialsPresent(c, u)
    THEN [called |-> TRUE, ready |-> TRUE, logs |-> IF isApiReady THEN 0 ELSE 1,
          drain |-> TryProcessQueue(apiActionQueue, TRUE, isProcessingApiQueue, runningApi)]
    ELSE [called |-> TRUE, ready |-> FALSE, logs |-> 0,
          drain |-> [queue |-> apiActionQueue, running |-> runningApi,
                     processing |-> isProcessingApiQueue, entered |-> FALSE]]

\* _checkApiReady() with this.cookie = c and this.userData = u: the gate, the
\* number of readiness logs it emits, and the api drain state it leaves.
CheckApiReady(c, u) ==
    IF ~CheckReturnsEarly /\ CredentialsPresent(c, u)
    THEN [called |-> TRUE, ready |-> TRUE, logs |-> 1,
          drain |-> TryProcessQueue(apiActionQueue, TRUE, isProcessingApiQueue, runningApi)]
    ELSE [called |-> TRUE, ready |-> isApiReady, logs |-> 0,
          drain |-> [queue |-> apiActionQueue, running |-> runningApi,
                     processing |-> isProcessingApiQueue, entered |-> FALSE]]

\* A handler ends without calling _checkApiReady.
NoCheck ==
    [called |-> FALSE, ready |-> isApiReady, logs |-> 0,
     drain |-> [queue |-> apiActionQueue, running |-> runningApi,
                processing |-> isProcessingApiQueue, entered |-> FALSE]]

\* The effect r of a _checkApiReady call on the engine; h is the observation
\* record the calling handler leaves, u the identity it leaves.
ApplyCheck(r, h, u) ==
    /\ isApiReady' = r.ready
    /\ apiActionQueue' = r.drain.queue
    /\ isProcessingApiQueue' = r.drain.processing
    /\ runningApi' = r.drain.running
    /\ hist' = [h EXCEPT !.readyA = @ + r.logs,
                         !.rechecked = @ \/ (r.called /\ isApiReady),
                         !.exeA = Started(@, runningApi, r.drain.running),
                         !.loopsA = Entered(@, r.drain),
                         !.apiNoIdentity =
                              IF r.drain.running # runningApi THEN u = Null ELSE @]

\* The route handler is entered for a request to mcl.blackboard.com and awaits
\* route.request().allHeaders() (205-206).
RouteRequest ==
    /\ interception
    /\ routePc = "idle"
    /\ routePc' = "allHeaders"
    /\ UNCHANGED <<initPc, initialized, interception, cookie, userData,
                   browserActionQueue, apiActionQueue, isBrowserReady, isApiReady,
                   isProcessingBrowserQueue, isProcessingApiQueue, runningBrowser,
                   runningApi, respPc, gsIn, gsOut, transformVars, streamVars, hist>>

\* allHeaders() resolves with cookie header c: lines 207-210 up to `await route.continue()`.
RouteHeadersResolve(c) ==
    /\ routePc = "allHeaders"
    /\ cookie' = IF Truthy(c) THEN c ELSE cookie
    /\ routePc' = "continue"
    /\ UNCHANGED <<initPc, initialized, interception, userData,
                   browserActionQueue, apiActionQueue, isBrowserReady, isApiReady,
                   isProcessingBrowserQueue, isProcessingApiQueue, runningBrowser,
                   runningApi, respPc, gsIn, gsOut, transformVars, streamVars, hist>>

\* route.continue() resolves: line 211 calls _checkApiReady().
RouteContinueResolves ==
    /\ routePc = "continue"
    /\ routePc' = "idle"
    /\ ApplyCheck(CheckApiReady(cookie, userData), hist, userData)
    /\ UNCHANGED <<initPc, initialized, interception, cookie, userData,
                   browserActionQueue, isBrowserReady, isProcessingBrowserQueue,
                   runningBrowser, respPc, gsIn, gsOut, transformVars, streamVars>>

\* allHeaders() or route.continue() rejects: the handler's promise rejects and
\* line 211 is not reached.
RouteAwaitRejects ==
    /\ routePc \in {"allHeaders", "continue"}
    /\ routePc' = "idle"
    /\ UNCHANGED <<initPc, initialized, interception, cookie, userData,
                   browserActionQueue, apiActionQueue, isBrowserReady, isApiReady,
                   isProcessingBrowserQueue, isProcessingApiQueue, runningBrowser,
                   runningApi, respPc, gsIn, gsOut, transformVars, streamVars, hist>>

\* A catch block that reports: `catch (e) { this._log('WARN', ...) }`.
ParseFailureLogsOne == Len(<<"WARN">>)

\* 'log' events emitted when no identity is taken from the body: the test of
\* line 222 has no else branch and the catch block of line 226 is empty.
ParseFailureLogs == 0

\* Observation of the last /ultra response handled.
Missed(h) == [h EXCEPT !.missed = TRUE, !.missLogged = @ \/ ParseFailureLogs > 0]
Stored(h) == [h EXCEPT !.missed = FALSE]

\* A 'response' event for GET https://mcl.blackboard.com/ultra: the handler
\* awaits response.text() (214-220).
ResponseUltra ==
    /\ interception
    /\ respPc = "idle"
    /\ respPc' = "text"
    /\ UNCHANGED <<initPc, initialized, interception, cookie, userData,
                   browserActionQueue, apiActionQueue, isBrowserReady, isApiReady,
                   isProcessingBrowserQueue, isProcessingApiQueue, runningBrowser,
                   runningApi, routePc, gsIn, gsOut, transformVars, streamVars, hist>>

\* response.text() resolves with body: lines 221-227.
ResponseTextResolves(body) ==
    /\ respPc = "text"
    /\ respPc' = "idle"
    /\ LET userDataString == getString(body, UserLeft, UserRight)
           taken == userDataString.kind = "string" /\ userDataString.text # <<>>
           parsed == JSONParse(userDataString.text)
           stored == taken /\ ~parsed.throws
           u == IF stored THEN parsed.value ELSE userData
       IN  /\ userData' = u
           /\ ApplyCheck(IF stored THEN CheckApiReady(cookie, u) ELSE NoCheck,
                         [(IF stored THEN Stored(hist) ELSE Missed(hist))
                             EXCEPT !.identitySeen = @ \/ (stored /\ Truthy(u))], u)
    /\ UNCHANGED <<initPc, initialized, interception, cookie,
                   browserActionQueue, isBrowserReady, isProcessingBrowserQueue,
                   runningBrowser, routePc, gsIn, gsOut, transformVars, streamVars>>

\* response.text() rejects: the catch at line 226 swallows it.
ResponseTextRejects ==
    /\ respPc = "text"
    /\ respPc' = "idle"
    /\ hist' = Missed(hist)
    /\ UNCHANGED <<initPc, initialized, interception, cookie, userData,
                   browserActionQueue, apiActionQueue, isBrowserReady, isApiReady,
                   isProcessingBrowserQueue, isProcessingApiQueue, runningBrowser,
                   runningApi, routePc, gsIn, gsOut, transformVars, streamVars>>

----------------------------------------------------------------------------

Next ==
    \/ GetActivities
    \/ GetCourses
    \/ \E o \in Outcomes : BrowserActionSettles(o)
    \/ \E o \in Outcomes : ApiActionSettles(o)
    \/ InitAwaitResolves
    \/ \E isNotLoggedIn \in BOOLEAN : InitContentResolves(isNotLoggedIn)
    \/ InitAwaitRejects
    \/ RouteRequest
    \/ \E c \in CookieHeaders : RouteHeadersResolve(c)
    \/ RouteContinueResolves
    \/ RouteAwaitRejects
    \/ ResponseUltra
    \/ \E body \in Bodies : ResponseTextResolves(body)
    \/ ResponseTextRejects

Spec == Init /\ [][Next]_vars

----------------------------------------------------------------------------
(* getString on its own: every text over a two-letter alphabet up to        *)
(* MaxTextLen, every pair of non-empty delimiters up to MaxDelimLen.        *)

Alphabet == {"a", "b"}
Strings(lo, hi) == UNION {[1..n -> Alphabet] : n \in lo..hi}

\* The engine as constructed, with no call of a function under test.
Constructed ==
    /\ initPc = "launch"
    /\ initialized = "pending"
    /\ interception = FALSE
    /\ cookie = Null
    /\ userData = Null
    /\ browserActionQueue = <<>>
    /\ apiActionQueue = <<>>
    /\ isBrowserReady = FALSE
    /\ isApiReady = FALSE
    /\ isProcessingBrowserQueue = FALSE
    /\ isProcessingApiQueue = FALSE
    /\ runningBrowser = NoAction
    /\ runningApi = NoAction
    /\ routePc = "idle"
    /\ respPc = "idle"
    /\ hist = HistInit

NoGetStringCall ==
    /\ gsIn = [string |-> <<>>, left |-> <<>>, right |-> <<>>]
    /\ gsOut = GsNotCalled

InitGetString ==
    /\ initPc = "launch"
    /\ initialized = "pending"
    /\ interception = FALSE
    /\ cookie = Null
    /\ userData = Null
    /\ browserActionQueue = <<>>
    /\ apiActionQueue = <<>>
    /\ isBrowserReady = FALSE
    /\ isApiReady = FALSE
    /\ isProcessingBrowserQueue = FALSE
    /\ isProcessingApiQueue = FALSE
    /\ runningBrowser = NoAction
    /\ runningApi = NoAction
    /\ routePc = "idle"
    /\ respPc = "idle"
    /\ gsIn \in [string : Strings(0, MaxTextLen),
                 left : Strings(1, MaxDelimLen),
                 right : Strings(1, MaxDelimLen)]
    /\ gsOut = GsNotCalled
    /\ NoTransformerCall
    /\ NoStreamResponse
    /\ hist = HistInit

CallGetString ==
    /\ gsOut = GsNotCalled
    /\ gsOut' = getString(gsIn.string, gsIn.left, gsIn.right)
    /\ UNCHANGED <<gsIn, engineVars, transformVars, streamVars>>

NextGetString == CallGetString

SpecGetString == InitGetString /\ [][NextGetString]_vars

----------------------------------------------------------------------------
(* Properties *)

Range(seq) == {seq[i] : i \in 1..Len(seq)}
IsPrefix(a, b) == Len(a) <= Len(b) /\ SubSeq(b, 1, Len(a)) = a

\* Every closure pushed is in the queue or was called, in the order of the pushes.
QueueAccounting ==
    /\ hist.exeB \o browserActionQueue = hist.enqB
    /\ hist.exeA \o apiActionQueue = hist.enqA
    /\ runningBrowser # NoAction => hist.exeB # <<>> /\ runningBrowser = hist.exeB[Len(hist.exeB)]
    /\ runningApi # NoAction => hist.exeA # <<>> /\ runningApi = hist.exeA[Len(hist.exeA)]

\* C1: on each queue the actions are called in the order they were pushed, none
\* twice, and once the gate is open and the drain is not waiting for an action,
\* every action pushed while the gate was closed has been called.
C1_PreGateActionsAllRunInOrder ==
    /\ IsPrefix(hist.exeB, hist.enqB)
    /\ IsPrefix(hist.exeA, hist.enqA)
    /\ (isBrowserReady /\ runningBrowser = NoAction) => hist.preB \subseteq Range(hist.exeB)
    /\ (isApiReady /\ runningApi = NoAction) => hist.preA \subseteq Range(hist.exeA)

\* C2: every action that threw or rejected has been reported by one ERROR log
\* of its queue, the drain loop survives it (the drain flag is set only while
\* the loop awaits an action), and no action is left behind it in the queue.
C2_FailureReportedAndDrainContinues ==
    /\ hist.errB = hist.failB
    /\ hist.errA = hist.failA
    /\ isProcessingBrowserQueue => runningBrowser # NoAction
    /\ isProcessingApiQueue => runningApi # NoAction
    /\ (isBrowserReady /\ runningBrowser = NoAction) => browserActionQueue = <<>>
    /\ (isApiReady /\ runningApi = NoAction) => apiActionQueue = <<>>

\* C3: an action pushed while the drain of its queue awaited another action has
\* been called by the time that drain is no longer waiting for an action, and
\* with the gate open and the drain flag false the queue is empty.
C3_MidDrainActionsRun ==
    /\ (isBrowserReady /\ ~isProcessingBrowserQueue) => browserActionQueue = <<>>
    /\ (isApiReady /\ ~isProcessingApiQueue) => apiActionQueue = <<>>
    /\ (isBrowserReady /\ runningBrowser = NoAction) => hist.midB \subseteq Range(hist.exeB)
    /\ (isApiReady /\ runningApi = NoAction) => hist.midA \subseteq Range(hist.exeA)

\* C4: while the gate of a queue is closed no action of that queue has been
\* called: all that were pushed are still in the queue, whatever the other gate
\* and the other queue did.
C4_NoActionBehindClosedGate ==
    /\ ~isBrowserReady =>
          /\ hist.exeB = <<>>
          /\ runningBrowser = NoAction
          /\ browserActionQueue = hist.enqB
    /\ ~isApiReady =>
          /\ hist.exeA = <<>>
          /\ runningApi = NoAction
          /\ apiActionQueue = hist.enqA

\* An api action has been called while the browser gate is closed and a browser
\* action waits in its queue.
C4_Witness ==
    /\ isApiReady /\ ~isBrowserReady
    /\ hist.exeA # <<>>
    /\ browserActionQueue # <<>>

\* C5: once no harvester handler is in flight, the api gate is open if and only
\* if both a cookie and an identity have been recorded.
C5_ApiGateIffBothRecorded ==
    (routePc = "idle" /\ respPc = "idle") =>
        (isApiReady <=> (cookie # Null /\ hist.identitySeen))

\* C6: each gate is announced at most once, and a _checkApiReady call made with
\* the api gate already open (at the end of either harvester handler) starts no
\* drain loop, calls no action and logs nothing.
C6_RedundantGateOpenIsNoOp ==
    /\ [](hist.readyA <= 1 /\ hist.readyB <= 1)
    /\ [][ (/\ isApiReady
            /\ \/ (routePc = "continue" /\ routePc' = "idle")
               \/ (respPc = "text" /\ respPc' = "idle"))
           => /\ UNCHANGED <<isApiReady, apiActionQueue, isProcessingApiQueue, runningApi>>
              /\ UNCHANGED <<isBrowserReady, browserActionQueue, isProcessingBrowserQueue,
                             runningBrowser>>
              /\ hist'.exeA = hist.exeA /\ hist'.exeB = hist.exeB
              /\ hist'.readyA = hist.readyA /\ hist'.readyB = hist.readyB ]_vars

\* _checkApiReady has been called with the gate already open, after the gate's
\* one readiness log, with an api action called by the one drain.
C6_Witness ==
    /\ hist.rechecked
    /\ hist.readyA = 1
    /\ hist.exeA # <<>>

\* C7: an action waiting in a queue whose gate is open always has the drain loop
\* of that queue ahead of it, suspended at an action whose settling resumes the
\* loop; so it is started if the actions before it complete or fail.
C7_PendingActionHasLiveDrain ==
    /\ (isBrowserReady /\ browserActionQueue # <<>>) => runningBrowser # NoAction
    /\ (isApiReady /\ apiActionQueue # <<>>) => runningApi # NoAction

\* C8 as claimed: once the initialized promise is rejected, no action of either
\* queue has been or is called.
C8_NoActionAfterInitFailure ==
    initialized = "rejected" => (hist.exeB = <<>> /\ hist.exeA = <<>>)

\* C8 amended: a rejected launch, newPage, goto, content read or login step
\* rejects the initialized promise and leaves the browser gate closed for good,
\* so that no browser action is ever called; when the rejection came before the
\* network interception was installed (launch, newPage, goto) the api gate stays
\* closed too and no api action is called.
C8_InitFailureClosesBrowserQueue ==
    /\ hist.rejected # "none" <=> initialized = "rejected"
    /\ initialized = "rejected" =>
          /\ initPc = "failed"
          /\ ~isBrowserReady
          /\ hist.exeB = <<>>
          /\ browserActionQueue = hist.enqB
    /\ hist.rejected \in {"launch", "newPage", "goto"} =>
          /\ ~interception
          /\ ~isApiReady
          /\ hist.exeA = <<>>
          /\ apiActionQueue = hist.enqA

\* The login rejected, a browser action waits in its queue for good, and an api
\* action has been called behind the api gate the harvester opened.
C8_Witness ==
    /\ initialized = "rejected"
    /\ hist.rejected \in {"fillUser", "fillPass", "signIn"}
    /\ browserActionQueue # <<>>
    /\ hist.exeA # <<>>

\* C9: the initialized promise is resolved only with the browser gate open, and
\* whatever the state of that promise, no api action is called while the api
\* gate is closed.
C9_InitializedNeedsOnlyBrowserGate ==
    /\ initialized = "resolved" => (isBrowserReady /\ initPc = "done" /\ hist.readyB = 1)
    /\ ~isApiReady => (hist.exeA = <<>> /\ apiActionQueue = hist.enqA)

\* The promise is resolved, the api gate is closed for want of a credential, and
\* an api action waits in its queue.
C9_Witness ==
    /\ initialized = "resolved"
    /\ ~isApiReady
    /\ (cookie = Null \/ userData = Null)
    /\ apiActionQueue # <<>>

\* C10: getString returns false when left or right does not occur in the text,
\* and the text between the first left and the first right behind it when both
\* are there.
C10_GetStringBetweenOrSentinel ==
    gsOut # GsNotCalled =>
        LET t == gsIn.string
            l == IndexOf(t, gsIn.left, 1)
            r == IF l = 0 THEN 0 ELSE IndexOf(t, gsIn.right, l + Len(gsIn.left))
        IN  /\ gsOut.kind \in {"string", "false"}
            /\ (l = 0 \/ IndexOf(t, gsIn.right, 1) = 0) => gsOut = GsFalse
            /\ (l # 0 /\ r # 0) => gsOut = GsString(SubSeq(t, l + Len(gsIn.left), r - 1))

----------------------------------------------------------------------------
(* Mutual exclusion of the drain loops *)

\* C13: on each queue at most one drain loop is suspended at `await action()` at
\* any time, under every interleaving of enqueues, gate openings and action
\* completions: the loop awaiting the running action is the only one, so no two
\* actions of one queue are in flight at once.
C13_AtMostOneDrainLoop ==
    /\ hist.loopsB <= 1
    /\ hist.loopsA <= 1
    /\ hist.loopsB = 1 <=> runningBrowser # NoAction
    /\ hist.loopsA = 1 <=> runningApi # NoAction

\* An enqueue arrived while the browser drain awaited an action: the new
\* action waits in the queue behind the one loop.
C13_Witness ==
    /\ hist.midB # {}
    /\ hist.loopsB = 1
    /\ browserActionQueue # <<>>

\* C14: each drain flag is true exactly while a drain loop of its queue is
\* executing and false otherwise, it is never true while its gate is closed, and
\* after any drain has ended, failed actions included, it is false again.
C14_DrainFlagTracksDrain ==
    /\ isProcessingBrowserQueue <=> hist.loopsB = 1
    /\ isProcessingApiQueue <=> hist.loopsA = 1
    /\ isProcessingBrowserQueue => isBrowserReady
    /\ isProcessingApiQueue => isApiReady

----------------------------------------------------------------------------
(* The gates *)

\* C15: both gates are latches: no step of the engine, its traffic handlers or
\* its drains takes isBrowserReady or isApiReady from true back to false.
C15_GatesAreLatches ==
    [][/\ isBrowserReady => isBrowserReady'
       /\ isApiReady => isApiReady']_vars

\* Both gates are open, _checkApiReady has run again behind the open api gate,
\* and the credentials its test reads are no longer both truthy.
C15_Witness ==
    /\ isBrowserReady
    /\ isApiReady
    /\ hist.rechecked
    /\ ~CredentialsPresent(cookie, userData)

\* C16: the browser gate is opened by one transition, the last step of
\* initialize: strictly after the session is set up (browser, page, navigation,
\* interception, login test) and, when the page asked for a login, after login()
\* has returned; no browser action enqueued before that transition is called
\* before it.
C16_BrowserGateOpensOnceAtEndOfInitialize ==
    /\ [](/\ isBrowserReady <=> initPc = "done"
          /\ isBrowserReady => interception /\ hist.login = "settled"
          /\ hist.login = "needed" <=>
                 initPc \in {"consent", "fillUser", "fillPass", "signIn", "networkIdle"}
                 \/ (initPc = "failed" /\ hist.rejected \in {"fillUser", "fillPass", "signIn"})
          /\ hist.readyB = (IF isBrowserReady THEN 1 ELSE 0)
          /\ ~isBrowserReady => hist.exeB = <<>> /\ hist.loopsB = 0)
    /\ [][~isBrowserReady /\ isBrowserReady' =>
             /\ initPc \in {"content", "networkIdle"}
             /\ initialized = "pending" /\ initialized' = "resolved"
             /\ Range(hist'.exeB) \subseteq hist.preB]_vars

\* The gate is open, no login is outstanding, and the actions enqueued before
\* the gate opened have been called, the first of them by the opening step.
C16_Witness ==
    /\ isBrowserReady
    /\ hist.login = "settled"
    /\ Cardinality(hist.preB) >= 2
    /\ Len(hist.exeB) >= 2

----------------------------------------------------------------------------
(* The credential harvester *)

\* C17: when the identity fragment of an /ultra response is missing or
\* malformed, the failure is swallowed and logged.
C17_ExtractionFailureIsLogged == hist.missed => hist.missLogged

\* C17 (amended): an /ultra response whose fragment is missing or malformed, or
\* whose body cannot be read, is swallowed without any log event; the step
\* leaves the identity, the api gate and the api drain as they were and the
\* interception installed; a later well-formed response still records its
\* identity, and with a cookie recorded the gate is then open.
C17_ExtractionFailureIgnoredSilently ==
    /\ [](~hist.missLogged)
    /\ [][respPc = "text" /\ respPc' = "idle" /\ hist'.missed =>
             /\ UNCHANGED <<userData, cookie, isApiReady, apiActionQueue,
                            isProcessingApiQueue, runningApi, interception>>
             /\ hist'.readyA = hist.readyA
             /\ hist'.errA = hist.errA]_vars
    /\ [][respPc = "text" /\ respPc' = "idle" /\ hist.missed /\ ~hist'.missed =>
             (CredentialsPresent(cookie', userData') => isApiReady')]_vars

\* The last /ultra response was a miss, handled while an identity was recorded
\* and the api gate open.
C17_Witness ==
    /\ hist.missed
    /\ hist.identitySeen
    /\ userData = JsIdentity
    /\ isApiReady

\* C19: in every reachable state an open api gate implies that cookie and
\* identity are both non-null: once recorded, no later request or response
\* resets either to null, so an api action finds both when it is called.
C19_OpenApiGateHasCredentials ==
    /\ isApiReady => cookie # Null /\ userData # Null
    /\ ~hist.apiNoIdentity

----------------------------------------------------------------------------
(* getActivitiesAsJson, src/utils/getAssignments.js.  Strings are strings;  *)
(* "" stands for every falsy field value (missing, null, empty).            *)

\* stream entries in the input
MaxEntries == 2

\* a || b on strings
OrElse(a, b) == IF a = "" THEN b ELSE a

\* courseMap.get(id) after the loop of lines 15-20: the name set last for id,
\* "" (undefined) when no course of the table has it.
CourseMapGet(courses, id) ==
    LET at == {i \in 1..Len(courses) : courses[i].id = id}
    IN  IF at = {} THEN ""
        ELSE courses[CHOOSE i \in at : \A j \in at : j <= i].name

\* the two filters of lines 25-30
IsCourseActivity(entry) ==
    /\ entry.providerId = "bb-nautilus"
    /\ entry.sourceType = "UA" \/ entry.sourceType = "TE"

\* the map callback of lines 32-44
ToActivity(courses, entry) ==
    [activityName |-> OrElse(entry.title, "Untitled Activity"),
     courseName |-> OrElse(CourseMapGet(courses, entry.se_courseId), "Unknown Course"),
     type |-> IF entry.sourceType = "UA" THEN "Assignment" ELSE "Test",
     dueDate |-> OrElse(entry.dueDate, Null),
     givenDate |-> OrElse(entry.startDate, Null)]

\* lines 23-44
AllActivities(courses, entries) ==
    LET kept == SelectSeq(entries, IsCourseActivity)
    IN  [i \in 1..Len(kept) |-> ToActivity(courses, kept[i])]

\* the Map key of line 49: `${act.activityName}-${act.courseName}`
ActivityKey(act) == act.activityName \o "-" \o act.courseName

\* Array.from(new Map(pairs).values()), lines 48-50: a Map keeps each key at the
\* place of its first insertion and the value of its last.
UniqueActivities(all) ==
    LET n == Len(all)
        first == SelectSeq([i \in 1..n |-> i],
                           LAMBDA i : \A j \in 1..(i - 1) : ActivityKey(all[j]) # ActivityKey(all[i]))
        last(i) == CHOOSE j \in 1..n :
                      /\ ActivityKey(all[j]) = ActivityKey(all[i])
                      /\ \A k \in (j + 1)..n : ActivityKey(all[k]) # ActivityKey(all[i])
    IN  [k \in 1..Len(first) |-> all[last(first[k])]]

\* lines 7-56.  obj.shape: "null" for a falsy argument, "noEntries" and
\* "noExtras" for a falsy sv_streamEntries or sv_extras, "entriesNotArray" for a
\* truthy sv_streamEntries without .filter (the TypeError of line 23), else "ok".
getActivitiesAsJson(obj) ==
    CASE obj.shape \in {"null", "noEntries", "noExtras"} ->
            [called |-> TRUE, throws |-> FALSE, activities |-> <<>>]
      [] obj.shape = "entriesNotArray" ->
            [called |-> TRUE, throws |-> TRUE, activities |-> <<>>]
      [] obj.shape = "ok" ->
            [called |-> TRUE, throws |-> FALSE,
             activities |-> UniqueActivities(AllActivities(obj.courses, obj.entries))]

----------------------------------------------------------------------------
(* getActivitiesAsJson on its own: every stream of up to MaxEntries entries *)
(* over the values below, with each course table.                           *)

Titles == {"", "a", "a-b"}
CourseIds == {"_1", "_2", "_9"}
CourseTables ==
    {<<>>,
     <<[id |-> "_1", name |-> "c"], [id |-> "_2", name |-> "b-c"]>>,
     <<[id |-> "_1", name |-> "c"], [id |-> "_1", name |-> "b-c"]>>}
Origins ==
    {[providerId |-> "bb-nautilus", sourceType |-> "UA"],
     [providerId |-> "bb-nautilus", sourceType |-> "TE"],
     [providerId |-> "bb-nautilus", sourceType |-> "AN"],
     [providerId |-> "bb_deployment", sourceType |-> "UA"]}
Dates ==
    {[dueDate |-> "", startDate |-> ""],
     [dueDate |-> "2025-10-01", startDate |-> ""],
     [dueDate |-> "", startDate |-> "2025-09-01"]}

Entries ==
    {[providerId |-> o.providerId, sourceType |-> o.sourceType, title |-> t,
      se_courseId |-> c, dueDate |-> d.dueDate, startDate |-> d.startDate] :
        o \in Origins, t \in Titles, c \in CourseIds, d \in Dates}

StreamDataObjects(maxEntries) ==
    {[shape |-> s] : s \in {"null", "noEntries", "noExtras", "entriesNotArray"}}
    \cup {[shape |-> "ok", courses |-> cs, entries |-> es] :
              cs \in CourseTables, es \in UNION {[1..n -> Entries] : n \in 0..maxEntries}}

InitActivities ==
    /\ Constructed
    /\ NoGetStringCall
    /\ NoStreamResponse
    /\ streamDataObject \in StreamDataObjects(MaxEntries)
    /\ gaOut = NotCalled
    /\ coursesDataObject = [shape |-> "null"]
    /\ gcOut = NotCalled

CallGetActivities ==
    /\ gaOut = NotCalled
    /\ gaOut' = getActivitiesAsJson(streamDataObject)
    /\ UNCHANGED <<streamDataObject, coursesDataObject, gcOut, gsIn, gsOut, engineVars, streamVars>>

NextActivities == CallGetActivities

SpecActivities == InitActivities /\ [][NextActivities]_vars

----------------------------------------------------------------------------
(* getCoursesAsJson, src/utils/getCourses.js *)

\* elements of the results array in the input
MaxResults == 2

\* the filter callback of line 17: `enrollment.course && !enrollment.course.isOrganization`
\* on an element that is an object
IsCourse(enrollment) ==
    /\ enrollment.element = "course"
    /\ enrollment.course.isOrganization \notin {"true"}

\* the map callback of lines 18-28
ToCourse(enrollment) ==
    [courseId |-> enrollment.course.courseId,
     courseName |-> enrollment.course.name,
     id |-> enrollment.course.id]

\* lines 7-34.  obj.shape: "null" for a falsy argument, "noResults" and
\* "resultsNotArray" for a results that fails Array.isArray, else "ok".  An
\* element of results that is null or undefined makes `enrollment.course`
\* (line 17) throw a TypeError out of the function.
getCoursesAsJson(obj) ==
    CASE obj.shape \in {"null", "noResults", "resultsNotArray"} ->
            [called |-> TRUE, throws |-> FALSE, courses |-> <<>>]
      [] obj.shape = "ok" /\ (\E i \in 1..Len(obj.results) : obj.results[i].element = "null") ->
            [called |-> TRUE, throws |-> TRUE, courses |-> <<>>]
      [] OTHER ->
            LET kept == SelectSeq(obj.results, IsCourse)
            IN  [called |-> TRUE, throws |-> FALSE,
                 courses |-> [i \in 1..Len(kept) |-> ToCourse(kept[i])]]

----------------------------------------------------------------------------
(* getCoursesAsJson on its own: every results array of up to MaxResults     *)
(* elements over the values below, and the malformed top-level shapes.      *)

CourseDetails ==
    {[courseId |-> "A-1", name |-> "Intro", id |-> "_1_1"],
     [courseId |-> "B-2", name |-> "Algebra", id |-> "_2_1"]}

Enrollments ==
    {[element |-> "null"], [element |-> "noCourse"]}
    \cup {[element |-> "course",
           course |-> [courseId |-> c.courseId, name |-> c.name, id |-> c.id,
                       isOrganization |-> o]] :
              c \in CourseDetails, o \in {"true", "false", "undefined"}}

CoursesDataObjects ==
    {[shape |-> s] : s \in {"null", "noResults", "resultsNotArray"}}
    \cup {[shape |-> "ok", results |-> rs] :
              rs \in UNION {[1..n -> Enrollments] : n \in 0..MaxResults}}

InitCourses ==
    /\ Constructed
    /\ NoGetStringCall
    /\ NoStreamResponse
    /\ streamDataObject = [shape |-> "null"]
    /\ gaOut = NotCalled
    /\ coursesDataObject \in CoursesDataObjects
    /\ gcOut = NotCalled

CallGetCourses ==
    /\ gcOut = NotCalled
    /\ gcOut' = getCoursesAsJson(coursesDataObject)
    /\ UNCHANGED <<streamDataObject, gaOut, coursesDataObject, gsIn, gsOut, engineVars, streamVars>>

NextCourses == CallGetCourses

SpecCourses == InitCourses /\ [][NextCourses]_vars

----------------------------------------------------------------------------
(* _handleActivityStreamResponse, src/mbe.js lines 256-278, entered from the *)
(* 'response' handler (230-232) for POST .../learn/api/v1/streams/ultra.     *)
(* The handler reads and writes no field of the engine; it is modelled on    *)
(* the engine whose interception has just been installed.                    *)

\* providers of the request payload besides bb_deployment
MaxOtherProviders == 2

\* What response.request().postDataJSON() gives: it throws on a body that is not
\* JSON, returns null when the request has no body, else the parsed value, of
\* which the handler reads .providers, .providers.bb_deployment and the number
\* of keys of .providers.
Payloads ==
    {[json |-> "throws"], [json |-> "null"],
     [json |-> "object", providers |-> "undefined"],
     [json |-> "object", providers |-> "null"]}
    \cup {[json |-> "object", providers |-> "object", bb_deployment |-> d, others |-> n] :
              d \in {"undefined", "null", "object"}, n \in 0..MaxOtherProviders}

\* Object.keys(requestData.providers).length
ProviderCount(p) == (IF p.bb_deployment = "undefined" THEN 0 ELSE 1) + p.others

\* line 258 throws, or line 261 reads .providers of null
PayloadThrows(p) == p.json \in {"throws", "null"}

\* The test of line 261 without its second conjunct.
HasDeploymentProvider(p) ==
    /\ p.json = "object"
    /\ p.providers = "object"
    /\ p.bb_deployment = "object"

\* `requestData.providers?.bb_deployment && Object.keys(requestData.providers).length < 3`
HasProviderSignature(p) ==
    /\ p.json = "object"
    /\ p.providers = "object"
    /\ p.bb_deployment = "object"
    /\ ProviderCount(p) < 3

\* what the handler has emitted for the response with request payload p
Handled(p, emitted, logs) ==
    [handled |-> TRUE, payload |-> p, emitted |-> emitted, logs |-> logs]

InitStream ==
    /\ initPc = "content"
    /\ initialized = "pending"
    /\ interception = TRUE
    /\ cookie = Null
    /\ userData = Null
    /\ browserActionQueue = <<>>
    /\ apiActionQueue = <<>>
    /\ isBrowserReady = FALSE
    /\ isApiReady = FALSE
    /\ isProcessingBrowserQueue = FALSE
    /\ isProcessingApiQueue = FALSE
    /\ runningBrowser = NoAction
    /\ runningApi = NoAction
    /\ routePc = "idle"
    /\ respPc = "idle"
    /\ hist = HistInit
    /\ NoGetStringCall
    /\ NoTransformerCall
    /\ NoStreamResponse

\* A 'response' event for the stream request with payload p: lines 256-265 up
\* to `await response.json()`, to the default case, or to the catch block.
StreamResponse(p) ==
    /\ interception
    /\ streamPc = "idle"
    /\ IF PayloadThrows(p)
       THEN /\ streamObs' = Handled(p, FALSE, <<"ERROR">>)
            /\ streamPc' = "idle"
       ELSE /\ streamObs' = Handled(p, FALSE, <<>>)
            /\ streamPc' = IF HasProviderSignature(p) THEN "json" ELSE "idle"
    /\ UNCHANGED <<engineVars, gsIn, gsOut, transformVars>>

\* response.json() resolves with data: lines 266-269, or the catch block when
\* the transformer throws.
StreamJsonResolves(data) ==
    /\ streamPc = "json"
    /\ streamPc' = "idle"
    /\ streamDataObject' = data
    /\ gaOut' = getActivitiesAsJson(data)
    /\ streamObs' = IF getActivitiesAsJson(data).throws
                    THEN Handled(streamObs.payload, FALSE, <<"ERROR">>)
                    ELSE Handled(streamObs.payload, TRUE, <<"INFO">>)
    /\ UNCHANGED <<engineVars, gsIn, gsOut, coursesDataObject, gcOut>>

\* response.json() rejects: the catch block of lines 275-277.
StreamJsonRejects ==
    /\ streamPc = "json"
    /\ streamPc' = "idle"
    /\ streamObs' = Handled(streamObs.payload, FALSE, <<"ERROR">>)
    /\ UNCHANGED <<engineVars, gsIn, gsOut, transformVars>>

NextStream ==
    \/ \E p \in Payloads : StreamResponse(p)
    \/ \E data \in StreamDataObjects(1) : StreamJsonResolves(data)
    \/ StreamJsonRejects

SpecStream == InitStream /\ [][NextStream]_vars

----------------------------------------------------------------------------
(* The activity transformer *)

\* the (activityName, courseName) pair of an activity
Pair(act) == <<act.activityName, act.courseName>>

\* C11: among the kept entries (provider bb-nautilus, source type UA or TE),
\* all entries with the same (activityName, courseName) pair yield exactly one
\* element of the output, and that element carries the fields of the last of
\* them.
C11_DuplicatesCollapseLastWins ==
    (gaOut.called /\ streamDataObject.shape = "ok") =>
        LET all == AllActivities(streamDataObject.courses, streamDataObject.entries)
            out == gaOut.activities
        IN  \A i \in 1..Len(all) :
                LET same == {j \in 1..Len(all) : Pair(all[j]) = Pair(all[i])}
                    lastOfThem == CHOOSE j \in same : \A k \in same : k <= j
                IN  /\ Cardinality({k \in 1..Len(out) : Pair(out[k]) = Pair(all[i])}) = 1
                    /\ \A k \in 1..Len(out) :
                          Pair(out[k]) = Pair(all[i]) => out[k] = all[lastOfThem]

\* C20: de-duplication never merges distinct activities: two kept entries whose
\* (activityName, courseName) pairs differ produce two separate elements of the
\* output.
C20_DistinctActivitiesStaySeparate ==
    (gaOut.called /\ streamDataObject.shape = "ok") =>
        LET all == AllActivities(streamDataObject.courses, streamDataObject.entries)
            out == gaOut.activities
        IN  \A i, j \in 1..Len(all) :
                Pair(all[i]) # Pair(all[j]) =>
                    \E k, l \in 1..Len(out) :
                        k # l /\ Pair(out[k]) = Pair(all[i]) /\ Pair(out[l]) = Pair(all[j])

----------------------------------------------------------------------------
(* The courses transformer *)

\* C12: for any input whose results is an array the transformer returns exactly
\* the records that have a course sub-object which is not an organization,
\* mapped to {courseId, courseName, id}, in input order; for any input with a
\* missing or malformed top-level shape it returns the empty list; it never
\* throws.
C12_CoursesKeptInOrderNeverThrows ==
    gcOut.called =>
        /\ ~gcOut.throws
        /\ coursesDataObject.shape # "ok" => gcOut.courses = <<>>
        /\ coursesDataObject.shape = "ok" =>
              LET rs == coursesDataObject.results
                  has == SelectSeq([i \in 1..Len(rs) |-> i],
                                   LAMBDA i : /\ rs[i].element = "course"
                                              /\ rs[i].course.isOrganization # "true")
              IN  gcOut.courses = [k \in 1..Len(has) |->
                                     [courseId |-> rs[has[k]].course.courseId,
                                      courseName |-> rs[has[k]].course.name,
                                      id |-> rs[has[k]].course.id]]

----------------------------------------------------------------------------
(* The activity-stream handler *)

\* the engine as InitStream leaves it: no field written, nothing logged
EngineUntouched ==
    /\ cookie = Null /\ userData = Null
    /\ ~isBrowserReady /\ ~isApiReady
    /\ browserActionQueue = <<>> /\ apiActionQueue = <<>>
    /\ ~isProcessingBrowserQueue /\ ~isProcessingApiQueue
    /\ hist = HistInit

\* the request payload of the response handled last lacks the provider
\* signature: a bb_deployment provider among fewer than three providers
LastPayloadUnsigned ==
    /\ streamObs.handled
    /\ ~(/\ streamObs.payload.json = "object"
         /\ streamObs.payload.providers = "object"
         /\ streamObs.payload.bb_deployment = "object"
         /\ streamObs.payload.others < 2)

\* C18: an activity-stream response whose request payload does not match the
\* provider signature is ignored silently: for every such payload there is no
\* fetch:assignments notification, no log event and no state change.
C18_UnsignedPayloadIgnoredSilently ==
    LastPayloadUnsigned =>
        /\ streamPc = "idle"
        /\ ~streamObs.emitted
        /\ streamObs.logs = <<>>
        /\ EngineUntouched

\* C18 (amended): such a response never yields a fetch:assignments notification
\* nor a state change; it yields no log event when the payload is a JSON value
\* without the signature, and one ERROR log when the request has no payload or
\* an unparseable one.
C18_UnsignedPayloadNeverNotifies ==
    LastPayloadUnsigned =>
        /\ streamPc = "idle"
        /\ ~streamObs.emitted
        /\ streamObs.logs = (IF streamObs.payload.json \in {"throws", "null"}
                             THEN <<"ERROR">> ELSE <<>>)
        /\ EngineUntouched

\* A payload with a bb_deployment provider among three providers was handled
\* after an earlier response had been transformed and notified.
C18_Witness ==
    /\ LastPayloadUnsigned
    /\ streamObs.payload.json = "object"
    /\ streamObs.payload.providers = "object"
    /\ streamObs.payload.bb_deployment = "object"
    /\ streamObs.payload.others = 2
    /\ gaOut.called

====
